---- MODULE Spec2Model ----
(***************************************************************************)
(* A model of pattern.h (Lua-style pattern matching in C).                 *)
(*                                                                         *)
(* One behaviour is one call of pattern_match_ex.  The recursive descent   *)
(* (pattern_match_start and the functions it dispatches to) is modelled as *)
(* a machine with an explicit call stack: pc = "call" is a pending call of *)
(* pattern_match_start(ps, string_ptr, pattern_ptr), pc = "ret" is a       *)
(* return of `res` to the frame on top of `stack` (to pattern_match_ex     *)
(* when the stack is empty).  Calls in return position                     *)
(* (`return pattern_match_start(...)`) push no frame: nothing is left to   *)
(* do in the caller.                                                       *)
(*                                                                         *)
(* Pointers are offsets: string_ptr, res and a capture's data are offsets  *)
(* into the input buffer, pattern_ptr and error_loc offsets into the       *)
(* pattern text.  Bytes are one-character strings, the zero byte is NUL.   *)
(***************************************************************************)
EXTENDS Integers, Sequences, FiniteSets, TLC

VARIABLES
    pattern,        \* the pattern text (a C string: no NUL inside)
    data,           \* the input buffer, ps->data (len = Len(data))
    starting_pos,   \* pattern_match_ex's argument starting_pos, as the caller passed it
    error,          \* ps->error
    error_loc,      \* ps->error_loc
    capture_count,  \* ps->capture_count
    captures,       \* ps->captures[PATTERN_MAX_CAPTURES]
    pc,             \* "begin", "call", "ret", "done"
    string_ptr,     \* argument of the pending pattern_match_start call
    pattern_ptr,    \* argument of the pending pattern_match_start call
    res,            \* value being returned (an offset, or NULL)
    stack,          \* frames of the descent's callers, innermost first
    str,            \* pattern_match_ex's local str (the attempt's start offset)
    status,         \* pattern_match_ex's return value, "PENDING" until it returns
    oob             \* a capture slot outside 0..capture_count-1 has been read

vars == <<pattern, data, starting_pos, error, error_loc, capture_count, captures,
          pc, string_ptr, pattern_ptr, res, stack, str, status, oob>>

---------------------------------------------------------------------------
(* Program constants *)

PATTERN_MAX_CAPTURES == 31
PATTERN_ESCAPE == "%"
PATTERN_CAPTURE_UNFINISHED == -1
PATTERN_CAPTURE_POSITION == -2

\* the null pointer returned by the descent on no-match
NULL == -1

\* the zero byte
NUL == "NUL"

Pattern_Error == {"NONE", "MAX_CAPTURES", "UNEXPECTED_CAPTURE_CLOSE", "UNCLOSED_CAPTURE",
                  "INVALID_CAPTURE_IDX", "INCOMPLETE_ESCAPE", "UNCLOSED_CLASS",
                  "INVALID_BALANCED_PATTERN", "UNCLOSED_FRONTIER_PATTERN"}

Pattern_Status == {"NO_MATCH", "MATCH", "ERROR"}

---------------------------------------------------------------------------
(* Bytes and <ctype.h> in the "C" locale *)

\* the printable ASCII characters, codes 32..126, in code order (the double quote,
\* the backslash and the backquote are spelled out)
Ascii == <<" ", "!", "DQUOTE", "#", "$", "%", "&", "'", "(", ")", "*", "+", ",", "-", ".", "/",
           "0", "1", "2", "3", "4", "5", "6", "7", "8", "9", ":", ";", "<", "=", ">", "?",
           "@", "A", "B", "C", "D", "E", "F", "G", "H", "I", "J", "K", "L", "M", "N", "O",
           "P", "Q", "R", "S", "T", "U", "V", "W", "X", "Y", "Z", "[", "BACKSLASH", "]", "^", "_",
           "BACKQUOTE", "a", "b", "c", "d", "e", "f", "g", "h", "i", "j", "k", "l", "m", "n", "o",
           "p", "q", "r", "s", "t", "u", "v", "w", "x", "y", "z", "{", "|", "}", "~">>

Chars == {Ascii[i] : i \in 1..Len(Ascii)} \cup {NUL}

\* the byte's code
Ord == [c \in Chars |-> IF c = NUL THEN 0
                        ELSE 31 + (CHOOSE i \in 1..Len(Ascii) : Ascii[i] = c)]

Chr(n) == IF n = 0 THEN NUL ELSE Ascii[n - 31]

isupper(c) == Ord[c] \in 65..90
islower(c) == Ord[c] \in 97..122
isalpha(c) == isupper(c) \/ islower(c)
isdigit(c) == Ord[c] \in 48..57
isalnum(c) == isalpha(c) \/ isdigit(c)
iscntrl(c) == Ord[c] \in 0..31 \/ Ord[c] = 127
isspace(c) == Ord[c] \in 9..13 \/ Ord[c] = 32
isprint(c) == Ord[c] \in 32..126
ispunct(c) == isprint(c) /\ ~isalnum(c) /\ Ord[c] # 32
isxdigit(c) == isdigit(c) \/ Ord[c] \in 65..70 \/ Ord[c] \in 97..102
tolower(c) == IF isupper(c) THEN Chr(Ord[c] + 32) ELSE c

---------------------------------------------------------------------------
(* Reading the pattern text and the input buffer *)

len == Len(data)

\* pattern_ptr[0] for pattern_ptr = pattern_base + p; the terminator reads as NUL
PatAt(p) == IF p < Len(pattern) THEN pattern[p + 1] ELSE NUL

\* *string_ptr for string_ptr = ps->data.data + s
DataAt(s) == data[s + 1]

\* pattern_is_at_end stopping at a zero byte, as for a C string
pattern_is_at_end_cstring(s) == s >= len \/ data[s + 1] = NUL

pattern_is_at_end(s) == s >= len

pattern_is_at_pattern_end(p) == PatAt(p) = NUL

---------------------------------------------------------------------------
(* The error latch *)

\* pattern_set_error with the guard dropped: the last error wins
pattern_set_error_overwrite(err, err_loc) == [error |-> err, error_loc |-> err_loc]

\* the values of ps->error and ps->error_loc after pattern_set_error(ps, err, err_loc)
pattern_set_error(err, err_loc) ==
    IF error # "NONE" THEN [error |-> error, error_loc |-> error_loc]
    ELSE [error |-> err, error_loc |-> err_loc]

---------------------------------------------------------------------------
(* Class Matcher *)

pattern_match_class(c, cls) ==
    LET l == tolower(cls)
        known == l \in {"a", "c", "d", "l", "p", "s", "u", "w", "x", "g", "z"}
        r == CASE l = "a" -> isalpha(c)
               [] l = "c" -> iscntrl(c)
               [] l = "d" -> isdigit(c)
               [] l = "l" -> islower(c)
               [] l = "p" -> ispunct(c)
               [] l = "s" -> isspace(c)
               [] l = "u" -> isupper(c)
               [] l = "w" -> isalnum(c)
               [] l = "x" -> isxdigit(c)
               [] l = "g" -> isprint(c) /\ ~isspace(c)
               [] l = "z" -> c = NUL
               [] OTHER -> FALSE
    IN  IF ~known THEN c = cls
        ELSE IF isupper(cls) THEN ~r ELSE r

\* the while loop of pattern_match_custom_class, entered with pattern_ptr = p
\* (before the ++pattern_ptr of its condition)
RECURSIVE custom_class_loop(_, _, _, _)
custom_class_loop(c, p, class_end, ret) ==
    LET q == p + 1 IN
    IF ~(q < class_end) THEN ~ret
    ELSE IF PatAt(q) = PATTERN_ESCAPE
         THEN IF pattern_match_class(c, PatAt(q + 1)) THEN ret
              ELSE custom_class_loop(c, q + 1, class_end, ret)
    ELSE IF PatAt(q + 1) = "-" /\ q + 2 < class_end
         THEN IF Ord[PatAt(q)] <= Ord[c] /\ Ord[c] <= Ord[PatAt(q + 2)] THEN ret
              ELSE custom_class_loop(c, q + 2, class_end, ret)
    ELSE IF PatAt(q) = c THEN ret
    ELSE custom_class_loop(c, q, class_end, ret)

\* p is the offset of `[`, class_end the offset of the closing `]`
pattern_match_custom_class(c, p, class_end) ==
    IF PatAt(p + 1) = "^" THEN custom_class_loop(c, p + 1, class_end, FALSE)
    ELSE custom_class_loop(c, p, class_end, TRUE)

pattern_match_class_or_char(c, p, class_end) ==
    CASE PatAt(p) = "." -> TRUE
      [] PatAt(p) = PATTERN_ESCAPE -> pattern_match_class(c, PatAt(p + 1))
      [] PatAt(p) = "[" -> pattern_match_custom_class(c, p, class_end - 1)
      [] OTHER -> c = PatAt(p)

---------------------------------------------------------------------------
(* Class-Span Scanner *)

\* the do-while loop of pattern_find_class_end, entered with pattern_ptr = q;
\* NULL when the pattern ends inside the class
RECURSIVE class_end_loop(_)
class_end_loop(q) ==
    IF pattern_is_at_pattern_end(q) THEN NULL
    ELSE LET q1 == q + 1
             q2 == IF PatAt(q) = PATTERN_ESCAPE /\ ~pattern_is_at_pattern_end(q1)
                   THEN q1 + 1 ELSE q1
         IN  IF PatAt(q2) # "]" THEN class_end_loop(q2) ELSE q2 + 1

\* [end: the offset just after the atom at p, or NULL; err, loc: the error to latch]
pattern_find_class_end(p) ==
    CASE PatAt(p) = PATTERN_ESCAPE ->
            IF pattern_is_at_pattern_end(p + 1)
            THEN [end |-> NULL, err |-> "INCOMPLETE_ESCAPE", loc |-> p]
            ELSE [end |-> p + 2, err |-> "NONE", loc |-> 0]
      [] PatAt(p) = "[" ->
            LET e == class_end_loop(IF PatAt(p + 1) = "^" THEN p + 2 ELSE p + 1)
            IN  IF e = NULL THEN [end |-> NULL, err |-> "UNCLOSED_CLASS", loc |-> p]
                ELSE [end |-> e, err |-> "NONE", loc |-> 0]
      [] OTHER -> [end |-> p + 1, err |-> "NONE", loc |-> 0]

---------------------------------------------------------------------------
(* Capture Manager: helpers *)

\* pattern_finish_captures searching from the bottom of the stack: the outermost
\* capture still open, or -1
pattern_finish_captures_outermost ==
    LET open == {i \in 1..(capture_count - 1) :
                    captures[i].size = PATTERN_CAPTURE_UNFINISHED}
    IN  IF open = {} THEN -1 ELSE CHOOSE i \in open : \A j \in open : i <= j

\* the index of the innermost capture still open, or -1
pattern_finish_captures ==
    LET open == {i \in 1..(capture_count - 1) :
                    captures[i].size = PATTERN_CAPTURE_UNFINISHED}
    IN  IF open = {} THEN -1 ELSE CHOOSE i \in open : \A j \in open : j <= i

\* the scan of pattern_check_unclosed_captures for the i-th unescaped `(`:
\* the offset at which the while loop ends, from offset pat with `n` counted so far
RECURSIVE unclosed_scan(_, _, _)
unclosed_scan(pat, n, i) ==
    IF ~(pat < Len(pattern)) THEN pat
    ELSE IF PatAt(pat) = PATTERN_ESCAPE THEN unclosed_scan(pat + 2, n, i)
    ELSE IF PatAt(pat) = "(" THEN IF n + 1 = i THEN pat ELSE unclosed_scan(pat + 1, n + 1, i)
    ELSE unclosed_scan(pat + 1, n, i)

\* the values of ps->error and ps->error_loc after pattern_check_unclosed_captures(ps)
pattern_check_unclosed_captures ==
    LET open == {i \in 1..(capture_count - 1) :
                    captures[i].size = PATTERN_CAPTURE_UNFINISHED}
    IN  IF open = {} THEN [error |-> error, error_loc |-> error_loc]
        ELSE LET i == CHOOSE k \in open : \A j \in open : k <= j
             IN  pattern_set_error("UNCLOSED_CAPTURE", unclosed_scan(0, 0, i))

---------------------------------------------------------------------------
(* Extended constructs: helpers *)

\* the number of digits after the `%` at p, plus one (digit_count of pattern_match_start)
RECURSIVE digit_count(_, _)
digit_count(p, n) == IF isdigit(PatAt(p + n)) THEN digit_count(p, n + 1) ELSE n

\* the digits at p, p+1, ... without their leading zeros
RECURSIVE significant_digits(_)
significant_digits(p) ==
    IF ~isdigit(PatAt(p)) THEN <<>>
    ELSE IF PatAt(p) = "0" /\ isdigit(PatAt(p + 1)) THEN significant_digits(p + 1)
    ELSE <<Ord[PatAt(p)] - 48>> \o significant_digits(p + 1)

\* LONG_MAX = 2^63 - 1 in decimal digits (long is 64 bits wide)
LongMaxDigits == <<9,2,2,3,3,7,2,0,3,6,8,5,4,7,7,5,8,0,7>>

\* ds > LongMaxDigits as decimal numbers (neither has a leading zero)
RECURSIVE digits_greater(_, _)
digits_greater(ds, ms) ==
    IF Len(ds) # Len(ms) THEN Len(ds) > Len(ms)
    ELSE IF ds = <<>> THEN FALSE
    ELSE IF Head(ds) # Head(ms) THEN Head(ds) > Head(ms)
    ELSE digits_greater(Tail(ds), Tail(ms))

\* the low 32 bits of the decimal number ds, as two 16-bit halves <<hi, lo>>
RECURSIVE low32(_, _, _)
low32(ds, hi, lo) ==
    IF ds = <<>> THEN <<hi, lo>>
    ELSE LET l == lo * 10 + Head(ds)
             h == hi * 10 + (l \div 65536)
         IN  low32(Tail(ds), h % 65536, l % 65536)

\* int capture = strtol(pattern_ptr + 1, NULL, 10) for the digits at p: strtol
\* saturates at LONG_MAX, and the conversion to the 32-bit int keeps the low 32 bits
strtol_int(p) ==
    LET ds == significant_digits(p)
        w == IF digits_greater(ds, LongMaxDigits) THEN <<65535, 65535>>
             ELSE low32(ds, 0, 0)
    IN  IF w[1] >= 32768 THEN (w[1] - 65536) * 65536 + w[2] ELSE w[1] * 65536 + w[2]

\* memcmp taken to find no difference
same_bytes_ignored(s, c, n) == TRUE

\* memcmp(string_ptr, capture, capture_len) == 0, for offsets s and c
RECURSIVE same_bytes(_, _, _)
same_bytes(s, c, n) ==
    IF n = 0 THEN TRUE
    ELSE DataAt(s) = DataAt(c) /\ same_bytes(s + 1, c + 1, n - 1)

\* the sizes a read of a slot below captures[0] may yield (the memory in front of
\* the array): unfinished, position, an empty range, a range longer than the input
GarbageSizes == {PATTERN_CAPTURE_UNFINISHED, PATTERN_CAPTURE_POSITION, 0, len + 1}

\* the scan of pattern_match_balanced stopping at the first closing byte, whatever
\* the depth
balanced_scan_flat(s, count, open, close) ==
    IF \E k \in s..(len - 1) : DataAt(k) = close
    THEN CHOOSE k \in s..(len - 1) :
            DataAt(k) = close /\ \A j \in s..(k - 1) : DataAt(j) # close
    ELSE NULL

\* the while loop of pattern_match_balanced from offset s with `count` levels open:
\* the offset of the byte that closes the first level, or NULL
RECURSIVE balanced_scan(_, _, _, _)
balanced_scan(s, count, open, close) ==
    IF pattern_is_at_end(s) THEN NULL
    ELSE IF DataAt(s) = open THEN balanced_scan(s + 1, count + 1, open, close)
    ELSE IF DataAt(s) = close
         THEN IF count - 1 = 0 THEN s ELSE balanced_scan(s + 1, count - 1, open, close)
    ELSE balanced_scan(s + 1, count, open, close)

\* the while loop of pattern_match_frontier: where class_ptr stops
RECURSIVE frontier_scan(_)
frontier_scan(q) ==
    IF ~pattern_is_at_pattern_end(q) /\ PatAt(q) # "]"
    THEN IF PatAt(q) = PATTERN_ESCAPE /\ ~pattern_is_at_pattern_end(q + 1)
         THEN frontier_scan(q + 2) ELSE frontier_scan(q + 1)
    ELSE q

---------------------------------------------------------------------------
(* Repetition Engine: helpers *)

\* the first loop of pattern_greedy_match: the length of the maximal run of bytes
\* from offset s that match the atom at p
RECURSIVE greedy_run(_, _, _, _)
greedy_run(s, p, cls_end, i) ==
    IF ~pattern_is_at_end(s + i) /\ pattern_match_class_or_char(DataAt(s + i), p, cls_end)
    THEN greedy_run(s, p, cls_end, i + 1)
    ELSE i

\* is_match of pattern_match_rep_operator
rep_is_match(s, p, class_end) ==
    ~pattern_is_at_end(s) /\ pattern_match_class_or_char(DataAt(s), p, class_end)

---------------------------------------------------------------------------
(* The inputs of a call *)

\* the longest generated input buffer
MaxLen == 3

\* the longest generated pattern
MaxPatLen == 2

\* all sequences over S of length at most n
Strings(S, n) == UNION {[1..k -> S] : k \in 0..n}

\* patterns of the repository's tests (test.c: errors, emptymatch,
\* matches_and_operators)
UnclosedCapturePattern == <<" ", " ", "(", ".">>
EmptyPattern == <<>>
WildcardStarPattern == <<"^", ".", "*", "$">>
GreedyPattern == <<"b", ".", "*", "b">>
LazyPattern == <<"b", ".", "-", "b">>

\* the pattern of the tests' capture-rollback cases (test.c: matches_and_operators)
BackrefBalancePattern == <<"^", "(", "[", "=", "]", "*", ")", "=", "%", "1", "$">>

\* the inputs of n `=` bytes, n = 0 .. 3 * MaxLen + 1 (the tests use 2, 3, 4 and 10)
EqualsInputs == {[i \in 1..n |-> "="] : n \in 0..(3 * MaxLen + 1)}

\* the pattern of the tests' balanced matches (test.c: balanced_matches), alone and
\* inside a group
BalancedPattern == <<"%", "b", "(", ")">>
BalancedGroupPattern == <<"(", "%", "b", "(", ")", ")">>

\* the bytes of the input buffers with parentheses
ParenAlphabet == {"(", ")", "a"}

\* the tests' unbalanced inputs `(abc` and `abc)`
UnbalancedInputs == {<<"(", "a", "b", "c">>, <<"a", "b", "c", ")">>}

\* the pattern and the inputs of the tests' word frontier (test.c: frontier_patterns)
FrontierWordPattern == <<"%", "f", "[", "%", "w", "]", "h", "e", "l", "l", "o">>
HelloWorld == <<"h", "e", "l", "l", "o", " ", "w", "o", "r", "l", "d">>
XHello == <<"x", "h", "e", "l", "l", "o">>

\* patterns that leave a group open after a `(` byte that opens no group: a `%b`
\* delimiter, and a member of a bracket expression
OpenAfterBalancedPattern == <<"%", "b", "(", ")", "(", "a">>
OpenAfterClassPattern == <<"[", "(", "]", "(", "a">>

\* the patterns and inputs of the tests' nested groups (test.c: nested_captures)
NestedPattern ==
    <<"^", "(", "(", "(", ".", ")", ".", ")", ".", "*", " ", "(", "%", "w", "*", ")", ")", "$">>
CloAlo == <<"c", "l", "o", " ", "a", "l", "o">>
NestedPositionPattern == <<"(", ".", "+", "(", ".", "?", ")", "(", ")", ")">>
TenDigits == <<"0", "1", "2", "3", "4", "5", "6", "7", "8", "9">>

\* backreferences whose written index does not fit the 32-bit int: 2^32 + 1, 2^32 - 1
\* and 2^31, each after one closed group
WideIndexPatterns ==
    { <<"(", "a", ")", "%", "4", "2", "9", "4", "9", "6", "7", "2", "9", "7">>,
      <<"(", "a", ")", "%", "4", "2", "9", "4", "9", "6", "7", "2", "9", "5">>,
      <<"(", "a", ")", "%", "2", "1", "4", "7", "4", "8", "3", "6", "4", "8">> }

\* a pattern that opens PATTERN_MAX_CAPTURES captures
MaxCapturesPattern == [i \in 1..PATTERN_MAX_CAPTURES |-> "("]

\* the tests' patterns above, and patterns that reach each construct and each error
NamedPatterns ==
    { UnclosedCapturePattern, EmptyPattern, WildcardStarPattern, GreedyPattern, LazyPattern,
      <<"^", "a">>,
      <<"(", "a">>,
      <<"a", "?", "b", "?", ")">>,
      <<"a", "?", ")">>,
      <<"(", "a", "*", ")", "b">>,
      <<"(", ")", "a", "+", "%", "1">>,
      <<"(", "a", "-", ")", "%", "1", "b">>,
      <<"(", ".", ")", "%", "1", "%", "2">>,
      <<"%", "0">>,
      <<"(", "a", "%", "1", ")">>,
      <<"(", "a", "*", ")", "%", "0", "1", "b">>,
      <<"(", "a", ")", "a", "?", "%", "1", "%", "1", "b", "%", "3">>,
      <<"%", "b", "a", "b">>,
      <<"%", "b", "a">>,
      <<"%", "f", "[", "b", "]", "b">>,
      <<"%", "f", "[", "b">>,
      <<"%", "f", "[", "^", "a", "]", "$">>,
      <<"%", "f", "[", "a", "b", "]", "b">>,
      <<"a", "%", "f", "[", "b", "]">>,
      <<"%", "f", "[", "]">>,
      <<"%", "f", "[", "^", "]">>,
      <<"%", "f", "[", "]", "a", "]">>,
      <<"%", "f", "[", "a", "%", "]">>,
      <<"%", "f", "[", "%", "w">>,
      <<"%", "f", "a">>,
      <<"[", "^", "a", "]", "+", "$">>,
      <<"[", "a">>,
      <<"a", "%">>,
      <<"%", "a", "$", "%", "z", "?">>,
      MaxCapturesPattern }

\* the bytes of the generated patterns
PatternAlphabet == {"a", ".", "*", "-", "?", "(", ")", "^", "$"}

\* the bytes of the generated input buffers
DataAlphabet == {"a", "b"}

\* the bytes of the input buffers with spaces and zero bytes
BinaryAlphabet == {" ", "a", NUL}

\* the input of the repository's greedy / lazy test
GreedyLazyInput ==
    <<"a", "a", "b", "a", "a", "a", "b", "a", "a", "a", "b", "a", "a", "a", "b", "a">>

\* [pattern, data] of the calls made
Cases ==
    {[pattern |-> p, data |-> d] :
        p \in NamedPatterns \cup WideIndexPatterns \cup Strings(PatternAlphabet, MaxPatLen),
        d \in Strings(DataAlphabet, MaxLen)}
    \cup {[pattern |-> p, data |-> d] :
        p \in {WildcardStarPattern, EmptyPattern},
        d \in Strings(BinaryAlphabet, MaxLen)}
    \cup {[pattern |-> UnclosedCapturePattern, data |-> d] :
        d \in Strings({" ", "a"}, MaxLen + 1)}
    \cup {[pattern |-> p, data |-> GreedyLazyInput] :
        p \in {GreedyPattern, LazyPattern}}
    \cup {[pattern |-> BackrefBalancePattern, data |-> d] : d \in EqualsInputs}
    \cup {[pattern |-> p, data |-> d] :
        p \in {BalancedPattern, BalancedGroupPattern,
                OpenAfterBalancedPattern, OpenAfterClassPattern},
        d \in Strings(ParenAlphabet, MaxLen + 1) \cup UnbalancedInputs}
    \cup {[pattern |-> FrontierWordPattern, data |-> d] : d \in {HelloWorld, XHello}}
    \cup {[pattern |-> NestedPattern, data |-> CloAlo],
          [pattern |-> NestedPositionPattern, data |-> TenDigits]}

---------------------------------------------------------------------------
(* pattern_match_ex and the recursive descent *)

\* a slot of ps->captures that has not been written
Unwritten == [data |-> 0, size |-> 0]

\* the state pattern_init leaves
Init ==
    /\ \E c \in Cases :
          /\ pattern = c.pattern
          /\ data = c.data
          /\ starting_pos \in (0 - Len(c.data))..Len(c.data)
    /\ error = "NONE"
    /\ error_loc = 0
    /\ capture_count = 1
    /\ captures = [i \in 0..(PATTERN_MAX_CAPTURES - 1) |->
                      IF i = 0 THEN [data |-> 0, size |-> PATTERN_CAPTURE_UNFINISHED]
                      ELSE Unwritten]
    /\ pc = "begin"
    /\ string_ptr = 0
    /\ pattern_ptr = 0
    /\ res = NULL
    /\ stack = <<>>
    /\ str = 0
    /\ status = "PENDING"
    /\ oob = FALSE

inputs == <<pattern, data, starting_pos>>

\* call pattern_match_start(ps, s, p)
Call(s, p) == pc' = "call" /\ string_ptr' = s /\ pattern_ptr' = p /\ res' = NULL

\* return r to the caller
Return(r) == pc' = "ret" /\ res' = r /\ UNCHANGED <<string_ptr, pattern_ptr>>

\* pattern_set_error(ps, err, loc)
SetError(err, loc) ==
    /\ error' = pattern_set_error(err, loc).error
    /\ error_loc' = pattern_set_error(err, loc).error_loc

Frame(fn, s, p, ce, i) == [fn |-> fn, sp |-> s, ap |-> p, ce |-> ce, i |-> i]

\* a negative starting_pos negated instead of counted from the end
effective_start_negated(pos) == IF pos < 0 THEN 0 - pos ELSE pos

\* starting_pos after `if(starting_pos < 0) starting_pos += len`
effective_start(pos) == IF pos < 0 THEN pos + len ELSE pos

\* pattern_match_ex up to its first call of the descent
pattern_match_ex ==
    /\ pc = "begin"
    /\ str' = effective_start(starting_pos)
    /\ Call(effective_start(starting_pos), IF PatAt(0) = "^" THEN 1 ELSE 0)
    /\ UNCHANGED <<inputs, error, error_loc, capture_count, captures, stack, status, oob>>

\* the cases of pattern_match_start's switch
IsPatternEnd == PatAt(pattern_ptr) = NUL
IsCaptureOpen == PatAt(pattern_ptr) = "("
IsCaptureClose == PatAt(pattern_ptr) = ")"
IsEndAnchor == PatAt(pattern_ptr) = "$" /\ pattern_is_at_pattern_end(pattern_ptr + 1)
IsBackref == PatAt(pattern_ptr) = PATTERN_ESCAPE /\ isdigit(PatAt(pattern_ptr + 1))
IsBalanced == PatAt(pattern_ptr) = PATTERN_ESCAPE /\ PatAt(pattern_ptr + 1) = "b"
IsFrontier == PatAt(pattern_ptr) = PATTERN_ESCAPE /\ PatAt(pattern_ptr + 1) = "f"
IsAtom == ~(IsPatternEnd \/ IsCaptureOpen \/ IsCaptureClose \/ IsEndAnchor
            \/ IsBackref \/ IsBalanced \/ IsFrontier)

\* pattern_match_start at the pattern's end, and at a final `$`
pattern_match_start ==
    /\ pc = "call"
    /\ ~(~IsPatternEnd /\ ~IsEndAnchor)
    /\ IF IsPatternEnd THEN Return(string_ptr)
       ELSE Return(IF pattern_is_at_end(string_ptr) THEN string_ptr ELSE NULL)
    /\ UNCHANGED <<inputs, error, error_loc, capture_count, captures,
                   stack, str, status, oob>>

\* the capture_count test of pattern_start_capture with > for >=
capture_stack_full_off_by_one == capture_count > PATTERN_MAX_CAPTURES

\* pattern_start_capture's test for a full capture stack
capture_stack_full == capture_count >= PATTERN_MAX_CAPTURES

\* pattern_start_capture up to its call of the descent
pattern_start_capture ==
    /\ pc = "call"
    /\ IsCaptureOpen
    /\ IF capture_stack_full
       THEN /\ SetError("MAX_CAPTURES", pattern_ptr)
            /\ Return(NULL)
            /\ UNCHANGED <<capture_count, captures, stack>>
       ELSE LET position == PatAt(pattern_ptr + 1) = ")"
                p == IF position THEN pattern_ptr + 1 ELSE pattern_ptr
            IN  /\ captures' = [captures EXCEPT ![capture_count] =
                        [data |-> string_ptr,
                         size |-> IF position THEN PATTERN_CAPTURE_POSITION
                                  ELSE PATTERN_CAPTURE_UNFINISHED]]
                /\ capture_count' = capture_count + 1
                /\ stack' = <<Frame("start_capture", string_ptr, pattern_ptr, 0, 0)>> \o stack
                /\ Call(string_ptr, p + 1)
                /\ UNCHANGED <<error, error_loc>>
    /\ UNCHANGED <<inputs, str, status, oob>>

\* pattern_start_capture after the descent returned, without the rollback
start_capture_rollback_missing(r) == capture_count

\* capture_count after pattern_start_capture's `if(!res) ps->capture_count--`
start_capture_rollback(r) == IF r = NULL THEN capture_count - 1 ELSE capture_count

\* pattern_start_capture from the return of the descent
pattern_start_capture_ret ==
    /\ pc = "ret"
    /\ stack # <<>>
    /\ Head(stack).fn = "start_capture"
    /\ capture_count' = start_capture_rollback(res)
    /\ stack' = Tail(stack)
    /\ Return(res)
    /\ UNCHANGED <<inputs, error, error_loc, captures, str, status, oob>>

\* the length pattern_end_capture gives capture i, one byte too long
end_capture_size_off_by_one(i) == string_ptr - captures[i].data + 1

\* the length pattern_end_capture gives capture i
end_capture_size(i) == string_ptr - captures[i].data

\* pattern_end_capture up to its call of the descent
pattern_end_capture ==
    /\ pc = "call"
    /\ IsCaptureClose
    /\ LET i == pattern_finish_captures
       IN  IF i = -1
           THEN /\ SetError("UNEXPECTED_CAPTURE_CLOSE", pattern_ptr)
                /\ Return(NULL)
                /\ UNCHANGED <<captures, stack>>
           ELSE /\ captures' = [captures EXCEPT ![i].size = end_capture_size(i)]
                /\ stack' = <<Frame("end_capture", string_ptr, pattern_ptr, 0, i)>> \o stack
                /\ Call(string_ptr, pattern_ptr + 1)
                /\ UNCHANGED <<error, error_loc>>
    /\ UNCHANGED <<inputs, capture_count, str, status, oob>>

\* pattern_end_capture after the descent returned, leaving the capture closed
end_capture_rollback_missing(r, i) == captures

\* ps->captures after pattern_end_capture's
\* `if(!res) ps->captures[i].size = PATTERN_CAPTURE_UNFINISHED`
end_capture_rollback(r, i) ==
    IF r = NULL THEN [captures EXCEPT ![i].size = PATTERN_CAPTURE_UNFINISHED]
    ELSE captures

\* pattern_end_capture from the return of the descent
pattern_end_capture_ret ==
    /\ pc = "ret"
    /\ stack # <<>>
    /\ Head(stack).fn = "end_capture"
    /\ captures' = end_capture_rollback(res, Head(stack).i)
    /\ stack' = Tail(stack)
    /\ Return(res)
    /\ UNCHANGED <<inputs, error, error_loc, capture_count, str, status, oob>>

\* the `%N` case of pattern_match_start, with pattern_match_capture
pattern_match_capture ==
    /\ pc = "call"
    /\ IsBackref
    /\ LET capture_idx == strtol_int(pattern_ptr + 1)
           in_range == ~(capture_idx > capture_count - 1)
           read_oob == in_range /\ capture_idx < 0
       IN  /\ oob' = (oob \/ read_oob)
           /\ \E size \in (IF ~in_range THEN {PATTERN_CAPTURE_UNFINISHED}
                           ELSE IF read_oob THEN GarbageSizes
                           ELSE {captures[capture_idx].size}) :
                 IF ~in_range \/ size = PATTERN_CAPTURE_UNFINISHED
                              \/ size = PATTERN_CAPTURE_POSITION
                 THEN /\ SetError("INVALID_CAPTURE_IDX", pattern_ptr + 1)
                      /\ Return(NULL)
                 ELSE IF len - string_ptr < size
                         \/ (size > 0 /\
                             ~same_bytes(string_ptr, captures[capture_idx].data, size))
                 THEN /\ Return(NULL)
                      /\ UNCHANGED <<error, error_loc>>
                 ELSE /\ Call(string_ptr + size, pattern_ptr + digit_count(pattern_ptr, 1))
                      /\ UNCHANGED <<error, error_loc>>
    /\ UNCHANGED <<inputs, capture_count, captures, stack, str, status>>

pattern_match_balanced ==
    /\ pc = "call"
    /\ IsBalanced
    /\ IF pattern_is_at_pattern_end(pattern_ptr + 2) \/ pattern_is_at_pattern_end(pattern_ptr + 3)
       THEN /\ SetError("INVALID_BALANCED_PATTERN", pattern_ptr)
            /\ Return(NULL)
       ELSE LET open == PatAt(pattern_ptr + 2)
                close == PatAt(pattern_ptr + 3)
            IN  /\ UNCHANGED <<error, error_loc>>
                /\ IF pattern_is_at_end(string_ptr) \/ DataAt(string_ptr) # open
                   THEN Return(NULL)
                   ELSE LET e == balanced_scan(string_ptr + 1, 1, open, close)
                        IN  IF e = NULL THEN Return(NULL)
                            ELSE Call(e + 1, pattern_ptr + 4)
    /\ UNCHANGED <<inputs, capture_count, captures, stack, str, status, oob>>

\* prev_char of pattern_match_frontier taken as the zero byte everywhere
frontier_prev_char_none(s) == NUL

\* prev_char of pattern_match_frontier
frontier_prev_char(s) == IF s > 0 THEN DataAt(s - 1) ELSE NUL

pattern_match_frontier ==
    /\ pc = "call"
    /\ IsFrontier
    /\ LET class_start == pattern_ptr + 2
           class_end == frontier_scan(class_start + 1)
       IN  IF pattern_is_at_pattern_end(pattern_ptr + 1) \/ PatAt(pattern_ptr + 2) # "["
              \/ PatAt(class_end) # "]"
           THEN /\ SetError("UNCLOSED_FRONTIER_PATTERN", pattern_ptr)
                /\ Return(NULL)
           ELSE LET prev_char == frontier_prev_char(string_ptr)
                    curr_char == IF pattern_is_at_end(string_ptr) THEN NUL
                                 ELSE DataAt(string_ptr)
                    prev_in_set == pattern_match_custom_class(prev_char, class_start, class_end)
                    curr_in_set == pattern_match_custom_class(curr_char, class_start, class_end)
                IN  /\ UNCHANGED <<error, error_loc>>
                    /\ IF ~prev_in_set /\ curr_in_set
                       THEN Call(string_ptr, class_end + 1)
                       ELSE Return(NULL)
    /\ UNCHANGED <<inputs, capture_count, captures, stack, str, status, oob>>

\* pattern_match_rep_operator: a malformed atom, an atom without operator, and `?`
pattern_match_rep_operator ==
    /\ pc = "call"
    /\ IsAtom
    /\ LET ce == pattern_find_class_end(pattern_ptr)
           class_end == ce.end
           is_match == rep_is_match(string_ptr, pattern_ptr, class_end)
       IN  /\ IF class_end = NULL THEN TRUE ELSE PatAt(class_end) \notin {"+", "*", "-"}
           /\ IF class_end = NULL
              THEN /\ SetError(ce.err, ce.loc)
                   /\ Return(NULL)
                   /\ UNCHANGED stack
              ELSE /\ UNCHANGED <<error, error_loc>>
                   /\ IF PatAt(class_end) = "?"
                      THEN IF is_match
                           THEN /\ stack' = <<Frame("optional", string_ptr, pattern_ptr,
                                                    class_end, 0)>> \o stack
                                /\ Call(string_ptr + 1, class_end + 1)
                           ELSE /\ Call(string_ptr, class_end + 1)
                                /\ UNCHANGED stack
                      ELSE /\ UNCHANGED stack
                           /\ IF is_match THEN Call(string_ptr + 1, class_end)
                              ELSE Return(NULL)
    /\ UNCHANGED <<inputs, capture_count, captures, str, status, oob>>

\* the `?` case of pattern_match_rep_operator from the return of its first call
pattern_match_rep_operator_ret ==
    /\ pc = "ret"
    /\ stack # <<>>
    /\ Head(stack).fn = "optional"
    /\ stack' = Tail(stack)
    /\ IF res # NULL THEN Return(res)
       ELSE Call(Head(stack).sp, Head(stack).ce + 1)
    /\ UNCHANGED <<inputs, error, error_loc, capture_count, captures,
                   str, status, oob>>

\* the count pattern_greedy_match starts from, with the run never extended
greedy_first_count_zero(s, p, cls_end) == 0

\* the count pattern_greedy_match tries the continuation with first
greedy_first_count(s, p, cls_end) == greedy_run(s, p, cls_end, 0)

\* `*` and `+`: pattern_greedy_match up to its first call of the descent
pattern_greedy_match ==
    /\ pc = "call"
    /\ IsAtom
    /\ LET class_end == pattern_find_class_end(pattern_ptr).end
       IN  /\ class_end # NULL
           /\ PatAt(class_end) \in {"+", "*"}
           /\ IF PatAt(class_end) = "+"
                 /\ ~rep_is_match(string_ptr, pattern_ptr, class_end)
              THEN /\ Return(NULL)
                   /\ UNCHANGED stack
              ELSE LET s == IF PatAt(class_end) = "+" THEN string_ptr + 1 ELSE string_ptr
                       i == greedy_first_count(s, pattern_ptr, class_end)
                   IN  /\ stack' = <<Frame("greedy", s, pattern_ptr, class_end, i)>> \o stack
                       /\ Call(s + i, class_end + 1)
    /\ UNCHANGED <<inputs, error, error_loc, capture_count, captures,
                   str, status, oob>>

\* the count of pattern_greedy_match's second loop left as it is
greedy_next_count_stuck(i) == i

\* the count after the `i--` of pattern_greedy_match's second loop
greedy_next_count(i) == i - 1

\* the second loop of pattern_greedy_match from the return of the descent
pattern_greedy_match_ret ==
    /\ pc = "ret"
    /\ stack # <<>>
    /\ Head(stack).fn = "greedy"
    /\ LET f == Head(stack)
       IN  IF res # NULL
           THEN stack' = Tail(stack) /\ Return(res)
           ELSE IF error # "NONE"
           THEN stack' = Tail(stack) /\ Return(NULL)
           ELSE IF greedy_next_count(f.i) >= 0
           THEN /\ stack' = <<[f EXCEPT !.i = greedy_next_count(f.i)]>> \o Tail(stack)
                /\ Call(f.sp + greedy_next_count(f.i), f.ce + 1)
           ELSE stack' = Tail(stack) /\ Return(NULL)
    /\ UNCHANGED <<inputs, error, error_loc, capture_count, captures,
                   str, status, oob>>

\* `-`: pattern_lazy_match up to its first call of the descent
pattern_lazy_match ==
    /\ pc = "call"
    /\ IsAtom
    /\ LET class_end == pattern_find_class_end(pattern_ptr).end
       IN  /\ class_end # NULL
           /\ PatAt(class_end) = "-"
           /\ stack' = <<Frame("lazy", string_ptr, pattern_ptr, class_end, 0)>> \o stack
           /\ Call(string_ptr, class_end + 1)
    /\ UNCHANGED <<inputs, error, error_loc, capture_count, captures,
                   str, status, oob>>

\* the do-while loop of pattern_lazy_match from the return of the descent
pattern_lazy_match_ret ==
    /\ pc = "ret"
    /\ stack # <<>>
    /\ Head(stack).fn = "lazy"
    /\ LET f == Head(stack)
       IN  IF res # NULL
           THEN stack' = Tail(stack) /\ Return(res)
           ELSE IF error # "NONE"
           THEN stack' = Tail(stack) /\ Return(NULL)
           ELSE IF ~pattern_is_at_end(f.sp)
                   /\ pattern_match_class_or_char(DataAt(f.sp), f.ap, f.ce)
           THEN /\ stack' = <<[f EXCEPT !.sp = f.sp + 1]>> \o Tail(stack)
                /\ Call(f.sp + 1, f.ce + 1)
           ELSE stack' = Tail(stack) /\ Return(NULL)
    /\ UNCHANGED <<inputs, error, error_loc, capture_count, captures,
                   str, status, oob>>

\* the status pattern_match_ex returns, testing the result before the error
match_ex_status_result_first(err, r) ==
    IF r # NULL THEN "MATCH" ELSE IF err # "NONE" THEN "ERROR" ELSE "NO_MATCH"

\* the status pattern_match_ex decides on after an attempt ("NO_MATCH": none yet)
match_ex_status(err, r) ==
    IF err # "NONE" THEN "ERROR" ELSE IF r # NULL THEN "MATCH" ELSE "NO_MATCH"

\* the search loop's condition with the attempt at the input's end left out
search_continues_short(s) == ~pattern_is_at_end(s + 1)

\* the condition of pattern_match_ex's do-while loop
search_continues(s) == ~pattern_is_at_end(s)

\* capture 0 as pattern_match_ex leaves it on a match
match_ex_capture0(anchored, r) ==
    [data |-> IF anchored THEN captures[0].data ELSE str, size |-> r - str]

\* pattern_match_ex from the return of the descent
pattern_match_ex_ret ==
    /\ pc = "ret"
    /\ stack = <<>>
    /\ LET anchored == PatAt(0) = "^"
           chk == pattern_check_unclosed_captures
           st == match_ex_status(chk.error, res)
       IN  /\ error' = chk.error
           /\ error_loc' = chk.error_loc
           /\ IF st = "ERROR"
              THEN /\ status' = "ERROR" /\ pc' = "done"
                   /\ UNCHANGED <<captures, str, string_ptr, pattern_ptr, res>>
              ELSE IF st = "MATCH"
              THEN /\ captures' = [captures EXCEPT ![0] = match_ex_capture0(anchored, res)]
                   /\ status' = "MATCH" /\ pc' = "done"
                   /\ UNCHANGED <<str, string_ptr, pattern_ptr, res>>
              ELSE IF anchored
              THEN /\ status' = "NO_MATCH" /\ pc' = "done"
                   /\ UNCHANGED <<captures, str, string_ptr, pattern_ptr, res>>
              ELSE IF search_continues(str)
              THEN /\ str' = str + 1
                   /\ Call(str + 1, 0)
                   /\ UNCHANGED <<captures, status>>
              ELSE /\ str' = str + 1
                   /\ status' = "NO_MATCH" /\ pc' = "done"
                   /\ UNCHANGED <<captures, string_ptr, pattern_ptr, res>>
    /\ UNCHANGED <<inputs, capture_count, stack, oob>>

Next ==
    \/ pattern_match_ex
    \/ pattern_match_start
    \/ pattern_start_capture
    \/ pattern_start_capture_ret
    \/ pattern_end_capture
    \/ pattern_end_capture_ret
    \/ pattern_match_capture
    \/ pattern_match_balanced
    \/ pattern_match_frontier
    \/ pattern_match_rep_operator
    \/ pattern_match_rep_operator_ret
    \/ pattern_greedy_match
    \/ pattern_greedy_match_ret
    \/ pattern_lazy_match
    \/ pattern_lazy_match_ret
    \/ pattern_match_ex_ret

Spec == Init /\ [][Next]_vars

---------------------------------------------------------------------------
(* A later error discovery, for the latch *)

\* any call site of pattern_set_error reached with an error already latched
pattern_set_error_again ==
    /\ pc # "done"
    /\ error # "NONE"
    /\ \E err \in Pattern_Error \ {"NONE"}, loc \in 0..(Len(pattern) + 1) :
          SetError(err, loc)
    /\ UNCHANGED <<inputs, capture_count, captures, pc, string_ptr, pattern_ptr, res,
                   stack, str, status, oob>>

NextLatch == Next \/ pattern_set_error_again

\* the call, with further error discoveries at any point after the first
SpecLatch == Init /\ [][NextLatch]_vars

\* the call running to its return: the program is sequential, so a step that can be
\* taken is taken
SpecFair == Init /\ [][Next]_vars /\ WF_vars(Next)

---------------------------------------------------------------------------
(* Properties *)

Anchored == PatAt(0) = "^"

Done == pc = "done"

\* a step of pattern_match_ex that starts an attempt of the descent
AttemptBegins == pc \in {"begin", "ret"} /\ stack = <<>> /\ pc' = "call"

\* a step of pattern_match_ex that takes the return of an attempt
AttemptEnds == pc = "ret" /\ stack = <<>>

\* capture i is live and closed
Closed(i) ==
    /\ i \in 0..(capture_count - 1)
    /\ captures[i].size # PATTERN_CAPTURE_UNFINISHED
    /\ captures[i].size # PATTERN_CAPTURE_POSITION

\* C1: on Match, capture 0 starts at the start offset of the successful attempt and
\* its length is the position the descent returned minus that offset, for patterns
\* with and without a leading `^`.
C1_Capture0IsAttemptSpan ==
    (Done /\ status = "MATCH") => captures[0] = [data |-> str, size |-> res - str]

\* C2: the first attempt is at the effective start offset; every further attempt is
\* made only for a pattern without `^`, only after the previous attempt returned
\* no-match with no error latched, and one byte further, up to and including the
\* offset len; an attempt that succeeds or leaves an error ends the search; NoMatch
\* for a pattern without `^` is returned only after the attempt at offset len.
C2_SearchOrder ==
    [][ /\ AttemptBegins =>
              /\ stack' = <<>>
              /\ pattern_ptr' = (IF Anchored THEN 1 ELSE 0)
              /\ string_ptr' = str'
              /\ IF pc = "begin"
                 THEN str' = (IF starting_pos < 0 THEN len + starting_pos ELSE starting_pos)
                 ELSE /\ ~Anchored
                      /\ res = NULL
                      /\ error = "NONE" /\ error' = "NONE"
                      /\ str' = str + 1
                      /\ str' <= len
        /\ (AttemptEnds /\ (res # NULL \/ error' # "NONE")) =>
              (pc' = "done" /\ status' # "NO_MATCH")
        /\ (AttemptEnds /\ Anchored) => pc' = "done"
        /\ (AttemptEnds /\ ~Anchored /\ status' = "NO_MATCH") => str = len
      ]_vars

\* C2 witness: a match found at a retried offset, two bytes after the start offset
C2_Witness ==
    Done /\ status = "MATCH" /\ ~Anchored /\ starting_pos >= 0 /\ str >= starting_pos + 2

\* C3: a call that latched an error returns Error, also when the descent of the same
\* attempt returned an end position; Match and NoMatch are returned only with the
\* error kind none.
C3_ErrorTakesPrecedence ==
    /\ Done => (status = "ERROR" <=> error # "NONE")
    /\ status \in {"MATCH", "NO_MATCH"} => error = "NONE"
    /\ ~Done => status = "PENDING"
    /\ Done => status \in Pattern_Status

\* C3 witness: Error returned although the descent returned an end position
C3_Witness == Done /\ status = "ERROR" /\ res # NULL

\* C4 as stated: `  (.` returns Error(unclosed-capture, 2) on every input buffer
C4_Original ==
    (Done /\ pattern = UnclosedCapturePattern) =>
        (status = "ERROR" /\ error = "UNCLOSED_CAPTURE" /\ error_loc = 2)

\* the input holds two spaces followed by one more byte, at or after offset s
TwoSpacesThenByte(s) ==
    \E k \in s..(len - 3) : DataAt(k) = " " /\ DataAt(k + 1) = " "

\* C4 amended: `  (.` returns Error(unclosed-capture, 2) exactly when the input holds,
\* at or after the effective start offset, two consecutive spaces followed by at
\* least one more byte; on every other input it returns NoMatch with no error.
C4_UnclosedCaptureWhenReached ==
    (Done /\ pattern = UnclosedCapturePattern) =>
        IF TwoSpacesThenByte(IF starting_pos < 0 THEN len + starting_pos ELSE starting_pos)
        THEN status = "ERROR" /\ error = "UNCLOSED_CAPTURE" /\ error_loc = 2
        ELSE status = "NO_MATCH" /\ error = "NONE"

\* C4 witness: the error reported on an input whose match starts after offset 0
C4_Witness ==
    /\ Done /\ pattern = UnclosedCapturePattern
    /\ status = "ERROR" /\ error = "UNCLOSED_CAPTURE" /\ str > 0

\* C5: once the latched error kind is not none, neither the kind nor the pattern
\* offset changes for the rest of the call, whatever is discovered later.
C5_FirstErrorWins ==
    [][error # "NONE" => (error' = error /\ error_loc' = error_loc)]_vars

\* C5 witness: a continuation attempt made after an error was latched
C5_Witness == pc = "call" /\ error # "NONE"

\* C6: 1 <= capture_count <= PATTERN_MAX_CAPTURES in every state; a `(` reached with
\* capture_count at the maximum latches max-captures at its offset and returns
\* no-match, writing no capture slot and leaving capture_count.
C6_CaptureCountBounded ==
    [][ /\ capture_count \in 1..PATTERN_MAX_CAPTURES
        /\ capture_count' \in 1..PATTERN_MAX_CAPTURES
        /\ (pc = "call" /\ PatAt(pattern_ptr) = "(" /\ capture_count = PATTERN_MAX_CAPTURES) =>
              /\ error' = (IF error = "NONE" THEN "MAX_CAPTURES" ELSE error)
              /\ error_loc' = (IF error = "NONE" THEN pattern_ptr ELSE error_loc)
              /\ pc' = "ret" /\ res' = NULL
              /\ captures' = captures
              /\ capture_count' = capture_count
      ]_vars

\* C6 witness: max-captures latched with the capture stack full
C6_Witness ==
    /\ error = "MAX_CAPTURES" /\ error_loc = PATTERN_MAX_CAPTURES - 1
    /\ capture_count = PATTERN_MAX_CAPTURES /\ pc = "ret" /\ res = NULL

\* C7: every live capture starts between 0 and the input length, and a live closed
\* capture has a length >= 0 that ends within the input.
C7_CapturesInBounds ==
    \A i \in 0..(PATTERN_MAX_CAPTURES - 1) :
        i < capture_count =>
            /\ captures[i].data \in 0..len
            /\ \/ captures[i].size = PATTERN_CAPTURE_UNFINISHED
               \/ captures[i].size = PATTERN_CAPTURE_POSITION
               \/ (captures[i].size >= 0 /\ captures[i].data + captures[i].size <= len)

\* C7 witness: a closed group of positive length that ends at the end of the input
C7_Witness ==
    \E i \in 1..(capture_count - 1) :
        /\ Closed(i) /\ captures[i].size > 0
        /\ captures[i].data + captures[i].size = len

\* C8: for the empty pattern, every input and every start offset (a negative one
\* counting from the end), the call returns Match with one capture, the empty range
\* at the effective start offset.
C8_EmptyPatternMatches ==
    (Done /\ pattern = EmptyPattern) =>
        /\ status = "MATCH"
        /\ capture_count = 1
        /\ captures[0] = [data |-> IF starting_pos < 0 THEN len + starting_pos
                                   ELSE starting_pos,
                          size |-> 0]

\* C8 witness: the empty pattern matched from a negative start offset inside the input
C8_Witness ==
    /\ Done /\ pattern = EmptyPattern /\ status = "MATCH"
    /\ starting_pos < 0 /\ len + starting_pos > 0

\* C9: `^.*$` searched from offset 0 returns Match with capture 0 the whole input,
\* whatever its bytes (zero bytes included).
C9_WildcardStarMatchesAll ==
    (Done /\ pattern = WildcardStarPattern /\ (starting_pos = 0 \/ starting_pos = 0 - len)) =>
        (status = "MATCH" /\ captures[0] = [data |-> 0, size |-> len])

\* C9 witness: the whole of an input with a zero byte in its middle matched
C9_Witness ==
    /\ Done /\ pattern = WildcardStarPattern /\ starting_pos = 0 /\ status = "MATCH"
    /\ len >= 3 /\ DataAt(1) = NUL /\ DataAt(2) # NUL

\* the length of the maximal run of bytes from offset s that match the atom at p
MaxRun(s, p, cls_end) ==
    CHOOSE m \in 0..(len - s) :
        /\ \A j \in 0..(m - 1) : pattern_match_class_or_char(DataAt(s + j), p, cls_end)
        /\ s + m = len \/ ~pattern_match_class_or_char(DataAt(s + m), p, cls_end)

\* the operator after the atom at the pending call's pattern position ("" if none)
AtomOperator ==
    IF pc = "call" /\ IsAtom /\ pattern_find_class_end(pattern_ptr).end # NULL
    THEN PatAt(pattern_find_class_end(pattern_ptr).end)
    ELSE ""

\* the top frame is of function fn and the descent returns to it
ReturnsTo(fn) == pc = "ret" /\ stack # <<>> /\ Head(stack).fn = fn

\* C10: for an atom followed by `*` the continuation is tried first after the maximal
\* run m of atom matches, then after m-1, ..., 0 atoms, and for `-` after 0, 1, ...
\* atoms while the atom matches; the first attempt that succeeds is the result, and
\* when none does (and no error is latched) the construct yields no-match: `*` takes
\* the largest count, `-` the smallest.  On `aabaaabaaabaaaba`, `b.*b` matches
\* `baaabaaabaaab` and `b.-b` matches `baaab`.
C10_GreedyLargestLazySmallest ==
    [][ /\ AtomOperator = "*" =>
              LET ce == pattern_find_class_end(pattern_ptr).end
                  m == MaxRun(string_ptr, pattern_ptr, ce)
              IN  /\ pc' = "call" /\ string_ptr' = string_ptr + m /\ pattern_ptr' = ce + 1
                  /\ stack' = <<[fn |-> "greedy", sp |-> string_ptr, ap |-> pattern_ptr,
                                 ce |-> ce, i |-> m]>> \o stack
        /\ AtomOperator = "-" =>
              LET ce == pattern_find_class_end(pattern_ptr).end
              IN  /\ pc' = "call" /\ string_ptr' = string_ptr /\ pattern_ptr' = ce + 1
                  /\ stack' = <<[fn |-> "lazy", sp |-> string_ptr, ap |-> pattern_ptr,
                                 ce |-> ce, i |-> 0]>> \o stack
        /\ (ReturnsTo("greedy") \/ ReturnsTo("lazy")) /\ res # NULL =>
              (pc' = "ret" /\ res' = res /\ stack' = Tail(stack))
        /\ (ReturnsTo("greedy") /\ res = NULL /\ error = "NONE") =>
              LET f == Head(stack)
              IN  IF f.i > 0
                  THEN /\ pc' = "call" /\ string_ptr' = f.sp + f.i - 1
                       /\ pattern_ptr' = f.ce + 1
                       /\ stack' = <<[f EXCEPT !.i = f.i - 1]>> \o Tail(stack)
                  ELSE pc' = "ret" /\ res' = NULL /\ stack' = Tail(stack)
        /\ (ReturnsTo("lazy") /\ res = NULL /\ error = "NONE") =>
              LET f == Head(stack)
              IN  IF f.sp < len /\ pattern_match_class_or_char(DataAt(f.sp), f.ap, f.ce)
                  THEN /\ pc' = "call" /\ string_ptr' = f.sp + 1
                       /\ pattern_ptr' = f.ce + 1
                       /\ stack' = <<[f EXCEPT !.sp = f.sp + 1]>> \o Tail(stack)
                  ELSE pc' = "ret" /\ res' = NULL /\ stack' = Tail(stack)
        /\ (pc' = "done" /\ data = GreedyLazyInput /\ starting_pos = 0) =>
              /\ pattern = GreedyPattern =>
                    (status' = "MATCH" /\ captures'[0] = [data |-> 2, size |-> 13])
              /\ pattern = LazyPattern =>
                    (status' = "MATCH" /\ captures'[0] = [data |-> 2, size |-> 5])
      ]_vars

\* C10 witness: the tests' greedy match found, after the larger counts failed
C10_Witness ==
    /\ Done /\ data = GreedyLazyInput /\ pattern = GreedyPattern /\ starting_pos = 0
    /\ status = "MATCH" /\ captures[0] = [data |-> 2, size |-> 13]

\* the input is n `=` bytes and the call starts at offset 0
EqualsCall ==
    /\ pattern = BackrefBalancePattern
    /\ \A k \in 1..len : data[k] = "="
    /\ effective_start(starting_pos) = 0

\* C11: on n `=` bytes, `^([=]*)=%1$` returns Match exactly when n is odd, then with
\* capture_count 2, capture 0 the whole input and capture 1 the first (n-1)/2 bytes;
\* for every even n it returns NoMatch; whenever the `*` retries with a shorter count,
\* the capture that was closed at the longer count is open again.
C11_BackrefBalance ==
    [][ /\ (EqualsCall /\ pc' = "done") =>
              IF len % 2 = 1
              THEN /\ status' = "MATCH"
                   /\ capture_count' = 2
                   /\ captures'[0] = [data |-> 0, size |-> len]
                   /\ captures'[1] = [data |-> 0, size |-> (len - 1) \div 2]
              ELSE status' = "NO_MATCH" /\ error' = "NONE"
        /\ (EqualsCall /\ ReturnsTo("greedy") /\ pc' = "call") =>
              /\ capture_count = 2
              /\ captures[1] = [data |-> 0, size |-> PATTERN_CAPTURE_UNFINISHED]
      ]_vars

\* C11 witness: `===` matched with capture 1 = `=`, after the counts 3 and 2 failed
C11_Witness ==
    /\ Done /\ EqualsCall /\ len = 3 /\ status = "MATCH"
    /\ captures[1] = [data |-> 0, size |-> 1]

\* the digits written after the `%` at p, without leading zeros
WrittenDigits(p) == significant_digits(p + 1)

\* the number of digits written after the `%` at p
WrittenDigitCount(p) ==
    CHOOSE d \in 1..Len(pattern) :
        /\ \A k \in 1..d : isdigit(PatAt(p + k))
        /\ ~isdigit(PatAt(p + d + 1))

\* the written index is below 2^31
BelowTwoTo31(p) ==
    \/ Len(WrittenDigits(p)) < 10
    \/ /\ Len(WrittenDigits(p)) = 10
       /\ ~digits_greater(WrittenDigits(p), <<2, 1, 4, 7, 4, 8, 3, 6, 4, 7>>)

\* the decimal number ds, for a number below 2^31
RECURSIVE DecimalValue(_, _)
DecimalValue(ds, acc) ==
    IF ds = <<>> THEN acc ELSE DecimalValue(Tail(ds), acc * 10 + Head(ds))

\* N is the index of a live closed capture
LiveClosed(N) == IF N < capture_count THEN Closed(N) ELSE FALSE

\* the input from offset s starts with a copy of capture N
StartsWithCopy(s, N) ==
    /\ s + captures[N].size <= len
    /\ \A k \in 0..(captures[N].size - 1) : DataAt(s + k) = DataAt(captures[N].data + k)

\* the step returns no-match and latches err at loc unless an error is latched already
FailsLatching(err, loc) ==
    /\ pc' = "ret" /\ res' = NULL
    /\ error' = (IF error = "NONE" THEN err ELSE error)
    /\ error_loc' = (IF error = "NONE" THEN loc ELSE error_loc)

\* C12: at a backreference `%N` with N below 2^31: if N >= capture_count, or capture N
\* is unfinished (N = 0 and a group still open included) or position-only,
\* invalid-capture-index is latched at the offset of the first digit and the descent
\* returns no-match; otherwise the descent continues only if the input from the
\* current position starts with a byte-for-byte copy of capture N, and then
\* length(capture N) bytes further, at the pattern position after the last digit.
C12_Backreference ==
    [][ (pc = "call" /\ IsBackref /\ BelowTwoTo31(pattern_ptr)) =>
            LET N == DecimalValue(WrittenDigits(pattern_ptr), 0)
            IN  IF ~LiveClosed(N)
                THEN FailsLatching("INVALID_CAPTURE_IDX", pattern_ptr + 1)
                ELSE /\ error' = error /\ error_loc' = error_loc
                     /\ IF StartsWithCopy(string_ptr, N)
                        THEN /\ pc' = "call"
                             /\ string_ptr' = string_ptr + captures[N].size
                             /\ pattern_ptr' = pattern_ptr + 1 + WrittenDigitCount(pattern_ptr)
                        ELSE pc' = "ret" /\ res' = NULL
      ]_vars

\* C12 witness: a backreference reached where the input holds enough bytes but not a
\* copy of the non-empty capture
C12_Witness ==
    /\ pc = "call" /\ IsBackref /\ BelowTwoTo31(pattern_ptr)
    /\ LiveClosed(1) /\ WrittenDigits(pattern_ptr) = <<1>>
    /\ captures[1].size > 0 /\ string_ptr + captures[1].size <= len
    /\ ~StartsWithCopy(string_ptr, 1)

\* the nesting depth after the bytes p+1 .. j, for a `%bxy` entered at p
Depth(p, j, x, y) ==
    1 + Cardinality({k \in (p + 1)..j : DataAt(k) = x})
      - Cardinality({k \in (p + 1)..j : DataAt(k) # x /\ DataAt(k) = y})

\* C13: at input position p, `%bxy` yields no-match without an error if p is at the
\* end of the input or input[p] # x; otherwise the depth starts at 1, is incremented
\* on each byte equal to x and otherwise decremented on each byte equal to y, and the
\* continuation is tried once, just past the first byte at which the depth is 0; if
\* the input ends first the result is no-match.  Unanchored `%b()` on `(()` matches
\* `()` at offset 1, and on `(abc` or `abc)` returns NoMatch.
C13_Balanced ==
    [][ /\ (pc = "call" /\ IsBalanced /\ PatAt(pattern_ptr + 2) # NUL
                        /\ PatAt(pattern_ptr + 3) # NUL) =>
            LET p == string_ptr
                x == PatAt(pattern_ptr + 2)
                y == PatAt(pattern_ptr + 3)
                zero == {j \in (p + 1)..(len - 1) : Depth(p, j, x, y) = 0}
            IN  /\ error' = error /\ error_loc' = error_loc
                /\ stack' = stack
                /\ IF p >= len THEN pc' = "ret" /\ res' = NULL
                   ELSE IF DataAt(p) # x THEN pc' = "ret" /\ res' = NULL
                   ELSE IF zero = {} THEN pc' = "ret" /\ res' = NULL
                   ELSE /\ pc' = "call"
                        /\ string_ptr' = 1 + (CHOOSE j \in zero : \A k \in zero : j <= k)
                        /\ pattern_ptr' = pattern_ptr + 4
        /\ (pc' = "done" /\ pattern = BalancedPattern /\ effective_start(starting_pos) = 0) =>
              /\ data = <<"(", "(", ")">> =>
                    (status' = "MATCH" /\ captures'[0] = [data |-> 1, size |-> 2])
              /\ data \in UnbalancedInputs => (status' = "NO_MATCH" /\ error' = "NONE")
      ]_vars

\* C13 witness: `%b()` matched the nested `(())`, passing the inner closing byte
C13_Witness ==
    /\ Done /\ pattern = BalancedPattern /\ data = <<"(", "(", ")", ")">>
    /\ status = "MATCH" /\ captures[0] = [data |-> 0, size |-> 4]

\* the offset of the first `]` after the `[` of the `%f[` at p
SetClose(p) ==
    CHOOSE b \in (p + 3)..Len(pattern) :
        PatAt(b) = "]" /\ \A k \in (p + 3)..(b - 1) : PatAt(k) # "]"

\* the offset of the first member of the set of the `%f[` at p
SetOpen(p) == IF PatAt(p + 3) = "^" THEN p + 4 ELSE p + 3

\* the `%f[set]` at p has a set of letters and digits, or the set `%w`, possibly
\* complemented with `^`
PlainFrontier(p) ==
    /\ PatAt(p + 2) = "["
    /\ \E b \in (p + 3)..Len(pattern) : PatAt(b) = "]"
    /\ SetOpen(p) < SetClose(p)
    /\ \/ \A k \in SetOpen(p)..(SetClose(p) - 1) : isalnum(PatAt(k))
       \/ /\ SetClose(p) = SetOpen(p) + 2
          /\ PatAt(SetOpen(p)) = "%" /\ PatAt(SetOpen(p) + 1) = "w"

\* byte c is in the set of the plain `%f[set]` at p
InFrontierSet(c, p) ==
    LET listed == IF PatAt(SetOpen(p)) = "%" THEN isalnum(c)
                  ELSE \E k \in SetOpen(p)..(SetClose(p) - 1) : PatAt(k) = c
    IN  IF PatAt(p + 3) = "^" THEN ~listed ELSE listed

\* C14: a well-formed `%f[set]` reached at input position p consumes nothing and lets
\* the descent continue at p exactly when prev is not in the set and cur is, where
\* prev is the byte at p-1 (the zero byte when p = 0) and cur the byte at p (the zero
\* byte when p = len); otherwise it yields no-match.  `%f[%w]hello` matches
\* `hello world` and does not match `xhello`.
C14_Frontier ==
    [][ /\ (pc = "call" /\ IsFrontier /\ PlainFrontier(pattern_ptr)) =>
            LET p == string_ptr
                prev == IF p = 0 THEN NUL ELSE DataAt(p - 1)
                cur == IF p = len THEN NUL ELSE DataAt(p)
            IN  /\ error' = error /\ error_loc' = error_loc
                /\ stack' = stack
                /\ IF ~InFrontierSet(prev, pattern_ptr) /\ InFrontierSet(cur, pattern_ptr)
                   THEN /\ pc' = "call" /\ string_ptr' = p
                        /\ pattern_ptr' = SetClose(pattern_ptr) + 1
                   ELSE pc' = "ret" /\ res' = NULL
        /\ (pc' = "done" /\ pattern = FrontierWordPattern
                         /\ effective_start(starting_pos) = 0) =>
              /\ data = HelloWorld =>
                    (status' = "MATCH" /\ captures'[0] = [data |-> 0, size |-> 5])
              /\ data = XHello => (status' = "NO_MATCH" /\ error' = "NONE")
      ]_vars

\* C14 witness: a frontier refused inside the input because the previous byte is in
\* the set as well
C14_Witness ==
    /\ pc = "call" /\ IsFrontier /\ PlainFrontier(pattern_ptr)
    /\ string_ptr > 0 /\ string_ptr < len
    /\ InFrontierSet(DataAt(string_ptr - 1), pattern_ptr)
    /\ InFrontierSet(DataAt(string_ptr), pattern_ptr)

\* the offset of the k-th `(` that opens a group, at or after q, reading the pattern
\* as the descent does (NULL if there is none)
RECURSIVE GroupOpenOffset(_, _)
GroupOpenOffset(q, k) ==
    IF PatAt(q) = NUL THEN NULL
    ELSE IF PatAt(q) = "(" THEN IF k = 1 THEN q ELSE GroupOpenOffset(q + 1, k - 1)
    ELSE IF PatAt(q) = ")" THEN GroupOpenOffset(q + 1, k)
    ELSE IF PatAt(q) = "%" /\ isdigit(PatAt(q + 1))
         THEN GroupOpenOffset(q + 1 + WrittenDigitCount(q), k)
    ELSE IF PatAt(q) = "%" /\ PatAt(q + 1) = "b" THEN GroupOpenOffset(q + 4, k)
    ELSE IF PatAt(q) = "%" /\ PatAt(q + 1) = "f"
         THEN GroupOpenOffset(frontier_scan(q + 3) + 1, k)
    ELSE LET ce == pattern_find_class_end(q).end
         IN  IF ce = NULL THEN NULL
             ELSE IF PatAt(ce) \in {"*", "+", "-", "?"} THEN GroupOpenOffset(ce + 1, k)
             ELSE GroupOpenOffset(ce, k)

\* the live captures still open
OpenCaptures ==
    {i \in 1..(capture_count - 1) : captures[i].size = PATTERN_CAPTURE_UNFINISHED}

\* C15: whenever a call returns Error with kind unclosed-capture, the reported offset
\* is the pattern offset of the `(` that opened the lowest-indexed capture still open
\* at the end of the attempt, also when a `(` byte occurs as a `%b` delimiter or as a
\* member of a bracket expression.
C15_UnclosedCaptureOffset ==
    (Done /\ status = "ERROR" /\ error = "UNCLOSED_CAPTURE") =>
        /\ OpenCaptures # {}
        /\ error_loc = GroupOpenOffset(0, CHOOSE i \in OpenCaptures :
                                             \A j \in OpenCaptures : i <= j)

\* the pattern offset at which the descent of an attempt starts
DescentStart == IF Anchored THEN 1 ELSE 0

\* the number of groups of the pattern
GroupCount ==
    Cardinality({k \in 1..Len(pattern) : GroupOpenOffset(DescentStart, k) # NULL})

\* C16: on Match, capture_count is 1 plus the number of groups of the pattern and no
\* live capture is unfinished; the group opened by the k-th `(` is capture k, pushed
\* at the input position where the `(` was reached, a `()` group as a position
\* capture; each `)` closes the innermost group still open.  `^(((.).).* (%w*))$` on
\* `clo alo` gives 5 captures, the groups being `clo alo`, `cl`, `c`, `alo`.
C16_GroupsAreCaptures ==
    [][ /\ (pc' = "done" /\ status' = "MATCH") =>
              /\ capture_count' = 1 + GroupCount
              /\ \A i \in 0..(capture_count' - 1) :
                    captures'[i].size # PATTERN_CAPTURE_UNFINISHED
        /\ (pc = "call" /\ IsCaptureOpen /\ capture_count < PATTERN_MAX_CAPTURES) =>
              /\ GroupOpenOffset(DescentStart, capture_count) = pattern_ptr
              /\ capture_count' = capture_count + 1
              /\ captures' = [captures EXCEPT ![capture_count] =
                    [data |-> string_ptr,
                     size |-> IF PatAt(pattern_ptr + 1) = ")" THEN PATTERN_CAPTURE_POSITION
                              ELSE PATTERN_CAPTURE_UNFINISHED]]
        /\ (pc = "call" /\ IsCaptureClose /\ OpenCaptures # {}) =>
              LET i == CHOOSE k \in OpenCaptures : \A j \in OpenCaptures : j <= k
              IN  /\ capture_count' = capture_count
                  /\ captures' = [captures EXCEPT ![i].size = string_ptr - captures[i].data]
        /\ (pc' = "done" /\ pattern = NestedPattern /\ effective_start(starting_pos) = 0) =>
              /\ status' = "MATCH" /\ capture_count' = 5
              /\ captures'[1] = [data |-> 0, size |-> 7]
              /\ captures'[2] = [data |-> 0, size |-> 2]
              /\ captures'[3] = [data |-> 0, size |-> 1]
              /\ captures'[4] = [data |-> 4, size |-> 3]
      ]_vars

\* C16 witness: a match with a group nested in a group and a position capture taken
\* at the end of the input
C16_Witness ==
    /\ Done /\ status = "MATCH" /\ pattern = NestedPositionPattern
    /\ capture_count = 4
    /\ captures[1] = [data |-> 0, size |-> len]
    /\ captures[2] = [data |-> len, size |-> 0]
    /\ captures[3] = [data |-> len, size |-> PATTERN_CAPTURE_POSITION]

\* C17: after an error has been latched, no further call into the recursive descent
\* is made in that call of pattern_match_ex: the `*` and `-` loops stop, `?` does not
\* retry the continuation without consuming, and the search loop tries no further
\* start offset.
C17_NoCallAfterError ==
    [][error # "NONE" => pc' # "call"]_vars

IsStartFrame(f) == f.fn = "start_capture"

\* the frames of the `(` whose call of the descent has not returned, innermost first
StartFrames == SelectSeq(stack, IsStartFrame)

\* the frame of the `(` that pushed capture k
StartFrameOf(k) == StartFrames[Len(StartFrames) - k + 1]

\* the frames of the `)` that closed capture k and whose call has not returned
EndFramesOf(k) == {j \in 1..Len(stack) : stack[j].fn = "end_capture" /\ stack[j].i = k}

\* capture_count and the captures below it are those the pending frames stand for: one
\* capture per pending `(`, started where that `(` was reached, closed (with the
\* length up to the `)`) exactly if a `)` that closed it is pending
CapturesAsEntered ==
    /\ capture_count = 1 + Len(StartFrames)
    /\ captures[0] = [data |-> 0, size |-> PATTERN_CAPTURE_UNFINISHED]
    /\ \A k \in 1..(capture_count - 1) :
          /\ captures[k].data = StartFrameOf(k).sp
          /\ captures[k].size =
                IF PatAt(StartFrameOf(k).ap + 1) = ")" THEN PATTERN_CAPTURE_POSITION
                ELSE IF EndFramesOf(k) = {} THEN PATTERN_CAPTURE_UNFINISHED
                ELSE stack[CHOOSE j \in EndFramesOf(k) : TRUE].sp - StartFrameOf(k).sp

\* C18: whenever a call of the descent returns no-match, capture_count and the start
\* and state of every capture below it are what they were when the call was entered
\* (at both points they are the ones the pending frames stand for, and the pending
\* frames are the same): a failed `(` pops the capture it pushed, a failed `)` reverts
\* the capture it closed to open.  Every retried start offset of a search begins with
\* capture_count = 1, and no return of the descent changes the latched error.
C18_NoMatchRestoresCaptures ==
    [][ /\ (pc = "call" \/ (pc = "ret" /\ res = NULL)) => CapturesAsEntered
        /\ (ReturnsTo("start_capture") /\ res = NULL) =>
              (pc' = "ret" /\ res' = NULL /\ capture_count' = capture_count - 1)
        /\ (ReturnsTo("end_capture") /\ res = NULL) =>
              /\ pc' = "ret" /\ res' = NULL
              /\ captures' = [captures EXCEPT ![Head(stack).i].size =
                                  PATTERN_CAPTURE_UNFINISHED]
        /\ (pc = "ret" /\ stack # <<>>) => (error' = error /\ error_loc' = error_loc)
        /\ (AttemptBegins /\ pc = "ret") =>
              (capture_count' = 1 /\ error' = error /\ error_loc' = error_loc)
      ]_vars

\* C18 witness: no-match returned to a `)` that had closed a non-empty group inside
\* another group
C18_Witness ==
    /\ ReturnsTo("end_capture") /\ res = NULL
    /\ Head(stack).i = 2 /\ captures[2].size > 0

\* the offset just after the bracket expression that follows the `%f` at p, as the
\* class-span scanner delimits it (NULL: rejected, or no `[` there)
FrontierClassEnd(p) ==
    IF PatAt(p + 2) = "[" THEN pattern_find_class_end(p + 2).end ELSE NULL

\* C19: the set of `%f[set]` is delimited as a bracket-expression atom is: when the
\* text after `%f` does not start with `[` or the class-span scanner rejects it as
\* unclosed (`[]`, `[^]`, `[a%]`, `[%w` at the pattern's end), reaching the `%f`
\* latches unclosed-frontier at the `%` offset; otherwise no error is latched and the
\* set ends at the `]` the class-span scanner selects (a leading `]` is a member), the
\* descent continuing just after it.
C19_FrontierSetDelimited ==
    [][ (pc = "call" /\ IsFrontier) =>
            IF FrontierClassEnd(pattern_ptr) = NULL
            THEN FailsLatching("UNCLOSED_FRONTIER_PATTERN", pattern_ptr)
            ELSE /\ error' = error /\ error_loc' = error_loc
                 /\ pc' = "call" => pattern_ptr' = FrontierClassEnd(pattern_ptr)
      ]_vars

\* the index written after the `%` at p is the index of a live closed capture
WrittenIndexLiveClosed(p) ==
    IF BelowTwoTo31(p) THEN LiveClosed(DecimalValue(WrittenDigits(p), 0)) ELSE FALSE

\* C20: for every digit string N after `%`, values of 2^31 and above included, a
\* reached backreference latches invalid-capture-index and returns no-match unless N,
\* read as the written decimal number, is the index of a live closed capture; no
\* capture slot outside 0..capture_count-1 is read.
C20_WideIndexRejected ==
    [][ /\ (pc = "call" /\ IsBackref /\ ~WrittenIndexLiveClosed(pattern_ptr)) =>
              FailsLatching("INVALID_CAPTURE_IDX", pattern_ptr + 1)
        /\ oob' = FALSE
      ]_vars

====
